---- MODULE Spec2Model ----
(***************************************************************************)
(* The intent timer manager of homeassistant/components/intent/timers.py.  *)
(*                                                                         *)
(* The manager runs on one asyncio event loop: a coroutine runs without    *)
(* interruption from one await to the next.  Every operation of the        *)
(* manager does all of its registry work before its first await (the       *)
(* gather over the handlers), so each operation is one atomic action that  *)
(* ends by appending the event it dispatches to the log `events`.  The     *)
(* handler coroutines that gather schedules are started by the loop in the *)
(* order in which they were scheduled; `ninvoked` counts how many of them  *)
(* have been started, `results` keeps how each one ended, and `returns`    *)
(* how the await of each gather ended: with no handler it ends in the step *)
(* of the operation itself, otherwise in a later step (resume), by the     *)
(* first exception of a handler or when all handlers have returned.  A     *)
(* suspension task (_wait_for_timer) is created by start_timer and         *)
(* add_time and takes its one step, the code after the sleep, in a later   *)
(* action.                                                                 *)
(*                                                                         *)
(* The clock is time.monotonic_ns() in units of 1/NsPerSec second.  Every  *)
(* reading is later than the one before it; between operations the clock   *)
(* moves on by a second (Tick) or to the end of a task's sleep             *)
(* (SleepUntil).                                                           *)
(*                                                                         *)
(* Specifications:                                                         *)
(*   Spec            the timers' life cycle on asyncio, no subscriber;     *)
(*   SpecBestEffort  the same where a cancellation request may reach a     *)
(*                   task too late;                                        *)
(*   SpecFair        the life cycle under fair scheduling;                 *)
(*   SpecDispatch    the manager with subscribers;                         *)
(*   SpecHandlers    subscribers whose handlers return or raise;           *)
(*   SpecSubscribe   subscribers that come and go during dispatches;       *)
(*   SpecCalls       the life cycle with the callers' calls observed;      *)
(*   SpecLookup      the life cycle with lookups.                          *)
(***************************************************************************)
EXTENDS Integers, Sequences, FiniteSets, TLC

VARIABLES
    clock,      \* time.monotonic_ns(): the next reading of the monotonic clock
    timers,     \* TimerManager.timers: timer id -> TimerInfo
    handlers,   \* TimerManager.handlers: device id -> list of handlers
    tasks,      \* every _wait_for_timer task created so far, in creation order
    events,     \* every TimerEvent handed to asyncio.gather so far, in order
    ninvoked,   \* how many of the scheduled handler calls the loop has started
    next_id,    \* the next value of ulid.ulid_now()
    results,    \* handler call -> "done" or "failed", once the handler has ended
    returns,    \* event -> "returned" or "raised", once the await of its
                \* gather is over
    last        \* the last call a caller made, where the callers are observed

\* The state of the manager and of the event loop.
state ==
    <<clock, timers, handlers, tasks, events, ninvoked, next_id, results,
      returns>>

vars ==
    <<clock, timers, handlers, tasks, events, ninvoked, next_id, results,
      returns, last>>

\* An optional value (T | None) is a sequence of at most one element: None is
\* the empty one, so that None equals no value and equals None.
None == <<>>
Some(x) == <<x>>

----------------------------------------------------------------------------
(* Bounds of the model. *)

\* Calls of start_timer in one run.
MaxTimers == 2
\* _wait_for_timer tasks created in one run (start_timer and add_time).
MaxTasks == 3
\* The same in the specification with subscribers.
DispatchTasks == 2
\* Handlers registered for one device at one time.
MaxHandlers == 1
\* In the specification whose handlers end: calls of start_timer, tasks, and
\* handlers registered for one device at one time.
HandlerTimers == 1
HandlerTasks == 2
HandlersPerDevice == 2
\* Handler calls the loop starts in that specification.
HandlerCalls == 6
\* Tasks in the specification whose subscribers come and go.
SubscribeTasks == 1
\* Tasks in the specification that observes the callers.
CallTasks == 3
\* Tasks in the specification with lookups.
LookupTasks == 2
\* Clock units in one second (the code's 1e9 nanoseconds, scaled down).
NsPerSec == 4
\* One-second steps of the clock are taken only within this many seconds of
\* the start; later the clock moves by a read or to a task's wake-up time.
Horizon == 1

Devices == {None, Some("kitchen")}
\* The handlers and devices register_handler is called with.
Registrations ==
    {<<"h1", None>>, <<"h1", Some("kitchen")>>, <<"h2", Some("kitchen")>>}

\* The subscribers of the kitchen where the handlers end.
Subscribers == <<"h1", "h2">>

\* Timer names are strings, modelled as sequences of characters.
Pa == <<"P", "a">>
pa_spaced == <<" ", "p", "a", " ">>
tea == <<"t">>

\* The requests start_timer is called with: hours, minutes, seconds (each
\* None or a non-negative integer), device_id, name.
Request(h, m, s, d, n) ==
    [hours |-> h, minutes |-> m, seconds |-> s, device_id |-> d, name |-> n]

StartRequests ==
    { Request(None, None, None, None, None),
      Request(None, None, Some(0), Some("kitchen"), Some(Pa)),
      Request(Some(0), Some(0), Some(1), Some("kitchen"), Some(pa_spaced)),
      Request(None, None, Some(2), None, Some(tea)),
      Request(None, Some(1), None, Some("kitchen"), Some(tea)),
      Request(Some(1), Some(1), Some(1), None, Some(Pa)) }

\* The requests of the specifications that need fewer.
FewRequests ==
    { Request(None, None, None, None, None),
      Request(None, None, Some(1), Some("kitchen"), Some(Pa)) }

\* The requests of the specification with lookups: two names that differ in
\* case and spaces only, a timer with no name, components that are absent.
LookupRequests ==
    { Request(None, None, None, None, None),
      Request(None, None, Some(0), Some("kitchen"), Some(Pa)),
      Request(Some(0), Some(0), Some(1), None, Some(pa_spaced)),
      Request(None, Some(1), None, Some("kitchen"), Some(tea)) }

\* The request of the specification whose handlers end.
KitchenRequests ==
    { Request(None, None, Some(1), Some("kitchen"), Some(Pa)) }

\* The seconds add_time and remove_time are called with.
Deltas == {-2, 0, 1, 60}
RemoveDeltas == {0, 1, 2}
DispatchDeltas == {-1, 1}
CallDeltas == {0, 1}

\* Names and start components the lookups are asked for.
QueryNames == {Pa, pa_spaced, tea, <<"p", "a">>, <<"T">>}
QueryParts == {None, Some(0), Some(1)}

\* The timer ids the operations are called with: one more than can exist.
TimerIds == 1..(MaxTimers + 1)

----------------------------------------------------------------------------
(* Helpers. *)

Max(a, b) == IF a >= b THEN a ELSE b

\* list.remove(x): the list without the first occurrence of x.
RECURSIVE list_remove(_, _)
list_remove(l, x) ==
    IF l = <<>> THEN <<>>
    ELSE IF Head(l) = x THEN Tail(l)
    ELSE <<Head(l)>> \o list_remove(Tail(l), x)

Contains(l, x) == \E i \in 1..Len(l) : l[i] = x

\* Mutant of dict_pop: the key stays.
dict_pop_nothing(d, k) == d

\* dict.pop(key): the dict without the key.
dict_pop(d, k) == [i \in (DOMAIN d) \ {k} |-> d[i]]

\* d[key] = value for a key that may be new.
dict_set(d, k, v) == [i \in (DOMAIN d) \cup {k} |-> IF i = k THEN v ELSE d[i]]

----------------------------------------------------------------------------
(* TimerInfo. *)

\* Mutant of seconds_left: no max(0, ...).
seconds_left_unclamped(timer, now) ==
    timer.seconds - ((now - timer.updated_at) \div NsPerSec)

\* TimerInfo.seconds_left at the clock reading `now`.
seconds_left(timer, now) ==
    LET seconds_running == (now - timer.updated_at) \div NsPerSec
    IN  Max(0, timer.seconds - seconds_running)

\* str.casefold on the characters the names are made of.
casefold_char(c) ==
    CASE c = "P" -> "p"
      [] c = "T" -> "t"
      [] OTHER -> c

casefold(s) == [i \in 1..Len(s) |-> casefold_char(s[i])]

\* str.strip: without leading and trailing whitespace.
RECURSIVE lstrip(_)
lstrip(s) ==
    IF s # <<>> /\ Head(s) = " " THEN lstrip(Tail(s)) ELSE s

RECURSIVE rstrip(_)
rstrip(s) ==
    IF s # <<>> /\ s[Len(s)] = " " THEN rstrip(SubSeq(s, 1, Len(s) - 1)) ELSE s

strip(s) == rstrip(lstrip(s))

\* TimerInfo.name_normalized.
name_normalized(timer) ==
    IF timer.name = None THEN None ELSE Some(casefold(strip(timer.name[1])))

----------------------------------------------------------------------------
(* The state after TimerManager.__init__. *)

\* An empty dict.
EmptyDict == [i \in {} |-> None]

Init ==
    /\ clock = 0
    /\ timers = EmptyDict
    /\ handlers = [d \in Devices |-> <<>>]
    /\ tasks = <<>>
    /\ events = <<>>
    /\ ninvoked = 0
    /\ next_id = 1
    /\ results = EmptyDict
    /\ returns = EmptyDict
    /\ last = [op |-> "none"]

----------------------------------------------------------------------------
(* The clock. *)

\* time.monotonic_ns(): a reading is `clock`, and the next reading is later.
monotonic_ns == clock

\* One second passes.
Tick ==
    /\ clock < Horizon * NsPerSec
    /\ clock' = clock + NsPerSec
    /\ UNCHANGED <<timers, handlers, tasks, events, ninvoked, next_id, results,
                   returns, last>>

\* Time passes until the sleep of task k is over.
SleepUntil(k) ==
    /\ tasks[k].state = "sleeping"
    /\ tasks[k].wake > clock
    /\ clock' = tasks[k].wake
    /\ UNCHANGED <<timers, handlers, tasks, events, ninvoked, next_id, results,
                   returns, last>>

----------------------------------------------------------------------------
(* The event dispatcher. *)

\* register_handler: self.handlers[device_id].append(handler).
register_handler(handler, device_id) ==
    /\ handlers' = [handlers EXCEPT ![device_id] = Append(@, handler)]
    /\ UNCHANGED <<clock, timers, tasks, events, ninvoked, next_id, results,
                   returns, last>>

\* Mutant of unregister: the handler is also taken out of the dispatches that
\* are under way.
unregister_from_dispatches(handler, device_id) ==
    /\ Contains(handlers[device_id], handler)
    /\ handlers' = [handlers EXCEPT ![device_id] = list_remove(@, handler)]
    /\ events' = [e \in DOMAIN events |->
                      IF e \in DOMAIN returns \/ events[e].device_id # device_id
                      THEN events[e]
                      ELSE [events[e] EXCEPT
                                !.targets = list_remove(@, handler)]]
    /\ UNCHANGED <<clock, timers, tasks, ninvoked, next_id, results,
                   returns, last>>

\* The callable register_handler returns:
\* self.handlers[device_id].remove(handler), called while it is registered.
unregister(handler, device_id) ==
    /\ Contains(handlers[device_id], handler)
    /\ handlers' = [handlers EXCEPT ![device_id] = list_remove(@, handler)]
    /\ UNCHANGED <<clock, timers, tasks, events, ninvoked, next_id, results,
                   returns, last>>

\* Mutant of gather: the event goes to the handlers of every device.
gather_all(type, timer, left, device_id, task) ==
    Append(events,
           [type |-> type, timer_id |-> timer.id, seconds_left |-> left,
            name |-> timer.name, device_id |-> device_id,
            targets |-> handlers[None] \o handlers[Some("kitchen")],
            task |-> task, at |-> clock])

\* asyncio.gather(*(handler(event) for handler in self.handlers[device_id])):
\* the event goes to the handlers in the device's list at this moment.  `task`
\* is the suspension task that dispatches (0: a caller of the manager) and `at`
\* the clock when the operation began.
gather(type, timer, left, device_id, task) ==
    Append(events,
           [type |-> type, timer_id |-> timer.id, seconds_left |-> left,
            name |-> timer.name, device_id |-> device_id,
            targets |-> handlers[device_id], task |-> task, at |-> clock])

\* await asyncio.gather(...): with no handler the gather is done at once and
\* the await does not suspend; otherwise the caller is suspended.
await_gather(device_id) ==
    IF handlers[device_id] = <<>>
    THEN dict_set(returns, Len(events) + 1, "returned")
    ELSE returns

\* Mutant of Calls: the calls of the newest event come first.
RECURSIVE Calls_newest_first(_)
Calls_newest_first(evs) ==
    IF evs = <<>> THEN <<>>
    ELSE LET n == Len(evs)
             e == evs[n]
         IN  [i \in 1..Len(e.targets) |-> [event |-> n, handler |-> e.targets[i]]]
             \o Calls_newest_first(SubSeq(evs, 1, n - 1))

\* The handler calls scheduled by the events of a log, in scheduling order.
RECURSIVE Calls(_)
Calls(evs) ==
    IF evs = <<>> THEN <<>>
    ELSE LET n == Len(evs)
             e == evs[n]
         IN  Calls(SubSeq(evs, 1, n - 1)) \o
             [i \in 1..Len(e.targets) |-> [event |-> n, handler |-> e.targets[i]]]

\* The loop starts the next scheduled handler coroutine.
InvokeHandler ==
    /\ ninvoked < Len(Calls(events))
    /\ ninvoked' = ninvoked + 1
    /\ UNCHANGED <<clock, timers, handlers, tasks, events, next_id, results,
                   returns, last>>

\* The scheduled handler calls of event e.
CallsOf(e) ==
    LET cs == Calls(events)
    IN  {c \in 1..Len(cs) : cs[c].event = e}

\* A handler that was started ends: it returns,
HandlerReturns(c) ==
    /\ c \notin DOMAIN results
    /\ results' = dict_set(results, c, "done")
    /\ UNCHANGED <<clock, timers, handlers, tasks, events, ninvoked, next_id,
                   returns, last>>

\* or it raises an exception.
HandlerRaises(c) ==
    /\ c \notin DOMAIN results
    /\ results' = dict_set(results, c, "failed")
    /\ UNCHANGED <<clock, timers, handlers, tasks, events, ninvoked, next_id,
                   returns, last>>

\* Mutant of gather_result: the exceptions of the handlers are results
\* (return_exceptions=True).
gather_result_exceptions(e) ==
    IF \A c \in CallsOf(e) : c \in DOMAIN results THEN "returned"
    ELSE "awaiting"

\* Mutant of gather_result: the first handler to end ends the gather.
gather_result_first(e) ==
    IF \E c \in CallsOf(e) : c \in DOMAIN results /\ results[c] = "failed"
    THEN "raised"
    ELSE IF \E c \in CallsOf(e) : c \in DOMAIN results THEN "returned"
    ELSE "awaiting"

\* The future asyncio.gather returned for event e: the exception of the first
\* handler that raised, or else a result when every handler has returned.
gather_result(e) ==
    IF \E c \in CallsOf(e) : c \in DOMAIN results /\ results[c] = "failed"
    THEN "raised"
    ELSE IF \A c \in CallsOf(e) : c \in DOMAIN results THEN "returned"
    ELSE "awaiting"

\* The operation suspended in `await asyncio.gather(...)` for event e goes on:
\* the exception propagates to its caller, or it logs and returns.  The loop
\* has started every handler of the gather by then.
resume(e) ==
    /\ e \notin DOMAIN returns
    /\ CallsOf(e) \subseteq 1..ninvoked
    /\ gather_result(e) # "awaiting"
    /\ returns' = dict_set(returns, e, gather_result(e))
    /\ UNCHANGED <<clock, timers, handlers, tasks, events, ninvoked, next_id,
                   results, last>>

----------------------------------------------------------------------------
(* Suspension tasks. *)

\* hass.async_create_background_task(self._wait_for_timer(timer_id, seconds,
\* updated_at)): the new task sleeps; its sleep is over `seconds` after it
\* began, which is no earlier than the reading updated_at.
create_task(timer_id, seconds, updated_at) ==
    [timer_id |-> timer_id, seconds |-> seconds, updated_at |-> updated_at,
     wake |-> updated_at + seconds * NsPerSec,
     state |-> "sleeping", cancel_requested |-> FALSE]

\* task.cancel(): a request; a task that has ended ignores it.
task_cancel(ts, k) ==
    IF ts[k].state = "sleeping"
    THEN [ts EXCEPT ![k].cancel_requested = TRUE]
    ELSE ts

----------------------------------------------------------------------------
(* The timer manager. *)

\* Mutant of total_seconds: an hour of 60 seconds.
total_seconds_short_hour(hours, minutes, seconds) ==
    (IF hours # None THEN 60 * hours[1] ELSE 0)
    + (IF minutes # None THEN 60 * minutes[1] ELSE 0)
    + (IF seconds # None THEN seconds[1] ELSE 0)

\* start_timer's total_seconds.
total_seconds(hours, minutes, seconds) ==
    (IF hours # None THEN 60 * 60 * hours[1] ELSE 0)
    + (IF minutes # None THEN 60 * minutes[1] ELSE 0)
    + (IF seconds # None THEN seconds[1] ELSE 0)

start_timer(hours, minutes, seconds, device_id, name) ==
    LET total == total_seconds(hours, minutes, seconds)
        timer_id == next_id
        created_at == monotonic_ns
        timer == [id |-> timer_id, name |-> name,
                  start_hours |-> hours, start_minutes |-> minutes,
                  start_seconds |-> seconds, seconds |-> total,
                  device_id |-> device_id, task |-> Len(tasks) + 1,
                  updated_at |-> created_at]
    IN  /\ next_id' = next_id + 1
        /\ clock' = clock + 1
        /\ tasks' = Append(tasks, create_task(timer_id, total, created_at))
        /\ timers' = dict_set(timers, timer_id, timer)
        /\ events' = gather("started", timer, total, device_id, 0)
        /\ returns' = await_gather(device_id)
        /\ UNCHANGED <<handlers, ninvoked, results>>

\* Mutant of timer_finished: the timer is read, not popped.
timer_finished_keeps(timer_id, device_id, k) ==
    IF timer_id \notin DOMAIN timers
    THEN UNCHANGED <<timers, events, returns>>
    ELSE /\ timers' = timers
         /\ events' = Append(events,
                [type |-> "finished", timer_id |-> timer_id, seconds_left |-> 0,
                 name |-> timers[timer_id].name, device_id |-> device_id,
                 targets |-> handlers[device_id], task |-> k, at |-> clock])
         /\ returns' = await_gather(device_id)

\* _timer_finished, called by suspension task k.
timer_finished(timer_id, device_id, k) ==
    IF timer_id \notin DOMAIN timers
    THEN UNCHANGED <<timers, events, returns>>
    ELSE /\ timers' = dict_pop(timers, timer_id)
         /\ events' = gather("finished", timers[timer_id], 0, device_id, k)
         /\ returns' = await_gather(device_id)

\* Mutant of still_current: the epoch is not compared.
still_current_any_epoch(timer_id, updated_at) ==
    timer_id \in DOMAIN timers

\* Mutant of still_current: the comparison is inverted.
still_current_inverted(timer_id, updated_at) ==
    /\ timer_id \in DOMAIN timers
    /\ timers[timer_id].updated_at # updated_at

\* The test _wait_for_timer makes after its sleep.
still_current(timer_id, updated_at) ==
    /\ timer_id \in DOMAIN timers
    /\ timers[timer_id].updated_at = updated_at

\* _wait_for_timer after asyncio.sleep(seconds).
wait_for_timer(k) ==
    LET t == tasks[k]
    IN  IF still_current(t.timer_id, t.updated_at)
        THEN /\ timer_finished(t.timer_id, timers[t.timer_id].device_id, k)
             /\ tasks' = [tasks EXCEPT ![k].state = "finished"]
        ELSE /\ tasks' = [tasks EXCEPT ![k].state = "stale"]
             /\ UNCHANGED <<timers, events, returns>>

\* The sleep of task k is over and no cancellation was requested.
TaskWake(k) ==
    /\ tasks[k].state = "sleeping"
    /\ ~tasks[k].cancel_requested
    /\ clock >= tasks[k].wake
    /\ wait_for_timer(k)
    /\ UNCHANGED <<clock, handlers, ninvoked, next_id, results, last>>

\* asyncio.CancelledError is raised in the sleep of task k: pass.
TaskCancelled(k) ==
    /\ tasks[k].state = "sleeping"
    /\ tasks[k].cancel_requested
    /\ tasks' = [tasks EXCEPT ![k].state = "cancelled"]
    /\ UNCHANGED <<clock, timers, handlers, events, ninvoked, next_id, results,
                   returns, last>>

\* The cancellation request does not reach task k before its sleep is over.
TaskWakeUncancelled(k) ==
    /\ tasks[k].state = "sleeping"
    /\ tasks[k].cancel_requested
    /\ clock >= tasks[k].wake
    /\ wait_for_timer(k)
    /\ UNCHANGED <<clock, handlers, ninvoked, next_id, results, last>>

\* Mutant of cancel_timer: the timer is read, not popped.
cancel_timer_keeps(timer_id) ==
    IF timer_id \notin DOMAIN timers
    THEN UNCHANGED state
    ELSE /\ timers' = timers
         /\ clock' = clock + 1
         /\ tasks' = [tasks EXCEPT ![timers[timer_id].task].cancel_requested =
                          tasks[timers[timer_id].task].state = "sleeping"]
         /\ events' = Append(events,
                [type |-> "cancelled", timer_id |-> timer_id, seconds_left |-> 0,
                 name |-> timers[timer_id].name,
                 device_id |-> timers[timer_id].device_id,
                 targets |-> handlers[timers[timer_id].device_id],
                 task |-> 0, at |-> clock])
         /\ returns' = await_gather(timers[timer_id].device_id)
         /\ UNCHANGED <<handlers, ninvoked, next_id, results>>

\* cancel_timer.  The record it pops is written to (seconds, updated_at) and
\* then only read for the event: no state keeps it.
cancel_timer(timer_id) ==
    IF timer_id \notin DOMAIN timers
    THEN UNCHANGED state
    ELSE LET timer == timers[timer_id]
         IN  /\ timers' = dict_pop(timers, timer_id)
             /\ clock' = clock + 1
             /\ tasks' = task_cancel(tasks, timer.task)
             /\ events' = gather("cancelled", timer, 0, timer.device_id, 0)
             /\ returns' = await_gather(timer.device_id)
             /\ UNCHANGED <<handlers, ninvoked, next_id, results>>

\* Mutant of new_seconds: the seconds are added to the stored duration.
new_seconds_from_total(timer, now, seconds) == Max(0, timer.seconds + seconds)

\* The duration add_time sets.
new_seconds(timer, now, seconds) == Max(0, seconds_left(timer, now) + seconds)

\* Mutant of add_time: updated_at is not set anew.
add_time_same_epoch(timer_id, seconds) ==
    IF seconds = 0 \/ timer_id \notin DOMAIN timers
    THEN UNCHANGED state
    ELSE LET old == timers[timer_id]
             secs == Max(0, seconds_left(old, clock) + seconds)
             timer == [old EXCEPT !.seconds = secs, !.task = Len(tasks) + 1]
         IN  /\ clock' = clock + 2
             /\ timers' = [timers EXCEPT ![timer_id] = timer]
             /\ tasks' = Append(
                    IF tasks[old.task].state = "sleeping"
                    THEN [tasks EXCEPT ![old.task].cancel_requested = TRUE]
                    ELSE tasks,
                    [timer_id |-> timer_id, seconds |-> secs,
                     updated_at |-> old.updated_at,
                     wake |-> clock + 1 + secs * NsPerSec,
                     state |-> "sleeping", cancel_requested |-> FALSE])
             /\ events' = Append(events,
                    [type |-> "updated", timer_id |-> timer_id,
                     seconds_left |-> secs, name |-> old.name,
                     device_id |-> old.device_id,
                     targets |-> handlers[old.device_id],
                     task |-> 0, at |-> clock])
             /\ returns' = await_gather(old.device_id)
             /\ UNCHANGED <<handlers, ninvoked, next_id, results>>

\* Mutant of add_time: no test of seconds == 0.
add_time_zero_updates(timer_id, seconds) ==
    IF timer_id \notin DOMAIN timers
    THEN UNCHANGED state
    ELSE LET old == timers[timer_id]
             secs == new_seconds(old, monotonic_ns, seconds)
             updated_at == monotonic_ns + 1
             timer == [old EXCEPT !.seconds = secs,
                                  !.updated_at = updated_at,
                                  !.task = Len(tasks) + 1]
         IN  /\ clock' = clock + 2
             /\ timers' = [timers EXCEPT ![timer_id] = timer]
             /\ tasks' = Append(task_cancel(tasks, old.task),
                                create_task(timer_id, secs, updated_at))
             /\ events' = gather("updated", timer, secs, timer.device_id, 0)
             /\ returns' = await_gather(timer.device_id)
             /\ UNCHANGED <<handlers, ninvoked, next_id, results>>

add_time(timer_id, seconds) ==
    IF seconds = 0 \/ timer_id \notin DOMAIN timers
    THEN UNCHANGED state
    ELSE LET old == timers[timer_id]
             secs == new_seconds(old, monotonic_ns, seconds)
             updated_at == monotonic_ns + 1
             timer == [old EXCEPT !.seconds = secs,
                                  !.updated_at = updated_at,
                                  !.task = Len(tasks) + 1]
         IN  /\ clock' = clock + 2
             /\ timers' = [timers EXCEPT ![timer_id] = timer]
             /\ tasks' = Append(task_cancel(tasks, old.task),
                                create_task(timer_id, secs, updated_at))
             /\ events' = gather("updated", timer, secs, timer.device_id, 0)
             /\ returns' = await_gather(timer.device_id)
             /\ UNCHANGED <<handlers, ninvoked, next_id, results>>

remove_time(timer_id, seconds) == add_time(timer_id, -seconds)

----------------------------------------------------------------------------
(* find_timer_by_name and find_timer_by_start read the registry only. *)

\* Iterating self.timers.values() and returning the first timer that matches:
\* a dict iterates in insertion order, which is the order of the ids.
first_match(hits) ==
    IF hits = {} THEN None
    ELSE Some(CHOOSE i \in hits : \A j \in hits : i <= j)

\* Mutant of find_timer_by_name: only the timers of the device are looked at.
find_timer_by_name_of_device(name, device_id) ==
    LET wanted == Some(casefold(strip(name)))
    IN  first_match({i \in DOMAIN timers :
                        /\ name_normalized(timers[i]) = wanted
                        /\ timers[i].device_id = device_id})

find_timer_by_name(name, device_id) ==
    LET wanted == Some(casefold(strip(name)))
    IN  first_match({i \in DOMAIN timers : name_normalized(timers[i]) = wanted})

find_timer_by_start(hours, minutes, seconds, device_id) ==
    first_match({i \in DOMAIN timers :
                    /\ timers[i].start_hours = hours
                    /\ timers[i].start_minutes = minutes
                    /\ timers[i].start_seconds = seconds})

----------------------------------------------------------------------------
(* The callers of the manager and the event loop. *)

StartTimer(requests, max_timers, max_tasks) ==
    /\ next_id <= max_timers
    /\ Len(tasks) < max_tasks
    /\ \E r \in requests :
           start_timer(r.hours, r.minutes, r.seconds, r.device_id, r.name)
    /\ UNCHANGED last

CancelTimer ==
    /\ \E id \in TimerIds : cancel_timer(id)
    /\ UNCHANGED last

AddTime(deltas, max_tasks) ==
    /\ Len(tasks) < max_tasks
    /\ \E id \in TimerIds, s \in deltas : add_time(id, s)
    /\ UNCHANGED last

RemoveTime(deltas, max_tasks) ==
    /\ Len(tasks) < max_tasks
    /\ \E id \in TimerIds, s \in deltas : remove_time(id, s)
    /\ UNCHANGED last

\* The same calls where the callers are observed: `last` keeps the call and
\* whether it has returned ("awaiting": it is suspended in its gather).
Outcome ==
    IF events' = events \/ Len(events') \in DOMAIN returns'
    THEN "returned" ELSE "awaiting"

CallStartTimer(requests, max_timers, max_tasks) ==
    /\ next_id <= max_timers
    /\ Len(tasks) < max_tasks
    /\ \E r \in requests :
           /\ start_timer(r.hours, r.minutes, r.seconds, r.device_id, r.name)
           /\ last' = [op |-> "start_timer", timer_id |-> next_id,
                       seconds |-> total_seconds(r.hours, r.minutes, r.seconds),
                       outcome |-> Outcome]

CallCancelTimer ==
    \E id \in TimerIds :
        /\ cancel_timer(id)
        /\ last' = [op |-> "cancel_timer", timer_id |-> id, seconds |-> 0,
                    outcome |-> Outcome]

CallAddTime(deltas, max_tasks) ==
    /\ Len(tasks) < max_tasks
    /\ \E id \in TimerIds, s \in deltas :
           /\ add_time(id, s)
           /\ last' = [op |-> "add_time", timer_id |-> id, seconds |-> s,
                       outcome |-> Outcome]

CallRemoveTime(deltas, max_tasks) ==
    /\ Len(tasks) < max_tasks
    /\ \E id \in TimerIds, s \in deltas :
           /\ remove_time(id, s)
           /\ last' = [op |-> "remove_time", timer_id |-> id, seconds |-> s,
                       outcome |-> Outcome]

\* A caller looks a timer up; the lookups only read.
FindTimerByName ==
    /\ \E n \in QueryNames, d \in Devices :
           last' = [op |-> "find_timer_by_name", name |-> n, device_id |-> d,
                    value |-> find_timer_by_name(n, d)]
    /\ UNCHANGED state

FindTimerByStart ==
    /\ \E h \in QueryParts, m \in QueryParts, sec \in QueryParts, d \in Devices :
           last' = [op |-> "find_timer_by_start", hours |-> h, minutes |-> m,
                    seconds |-> sec, device_id |-> d,
                    value |-> find_timer_by_start(h, m, sec, d)]
    /\ UNCHANGED state

RegisterHandler(max_handlers) ==
    \E r \in Registrations :
        /\ Len(handlers[r[2]]) < max_handlers
        /\ register_handler(r[1], r[2])

\* The first of the subscribers that is not registered for the device
\* registers.
RegisterNext(subscribers, device_id, max_handlers) ==
    /\ Len(handlers[device_id]) < max_handlers
    /\ \E i \in 1..Len(subscribers) :
           /\ ~Contains(handlers[device_id], subscribers[i])
           /\ \A j \in 1..(i - 1) : Contains(handlers[device_id], subscribers[j])
           /\ register_handler(subscribers[i], device_id)

Unregister == \E r \in Registrations : unregister(r[1], r[2])

\* A subscriber registers before any timer is started.
SubscribeFirst(subscribers, device_id, max_handlers) ==
    /\ events = <<>>
    /\ RegisterNext(subscribers, device_id, max_handlers)

\* The loop starts a handler, fewer than max_calls having been started.
InvokeSome(max_calls) == ninvoked < max_calls /\ InvokeHandler

HandlerEnds ==
    \E c \in 1..ninvoked : HandlerReturns(c) \/ HandlerRaises(c)

Resume == \E e \in DOMAIN events : resume(e)

Wake == \E k \in DOMAIN tasks : TaskWake(k)

Cancelled == \E k \in DOMAIN tasks : TaskCancelled(k)

WakeUncancelled == \E k \in DOMAIN tasks : TaskWakeUncancelled(k)

Sleep == \E k \in DOMAIN tasks : SleepUntil(k)

----------------------------------------------------------------------------
(* Specifications. *)

\* The timers' life cycle, with no subscriber: every event is dispatched to an
\* empty list of handlers.
Next ==
    \/ StartTimer(StartRequests, MaxTimers, MaxTasks)
    \/ CancelTimer
    \/ AddTime(Deltas, MaxTasks)
    \/ RemoveTime(RemoveDeltas, MaxTasks)
    \/ Wake
    \/ Cancelled
    \/ Tick
    \/ Sleep

\* The manager on asyncio, whose Task.cancel() always reaches a sleeping task.
Spec == Init /\ [][Next]_vars

\* The manager on a host whose cancellation is best effort: a request may come
\* too late for the task it is sent to.
NextBestEffort ==
    \/ StartTimer(FewRequests, MaxTimers, MaxTasks)
    \/ CancelTimer
    \/ AddTime(Deltas, MaxTasks)
    \/ RemoveTime(RemoveDeltas, MaxTasks)
    \/ Wake
    \/ Cancelled
    \/ WakeUncancelled
    \/ Tick
    \/ Sleep

SpecBestEffort == Init /\ [][NextBestEffort]_vars

\* The same under fair scheduling: a task whose sleep is over runs, and time
\* passes until a sleep is over.
Fairness ==
    \A k \in 1..MaxTasks :
        /\ WF_vars(k \in DOMAIN tasks /\ TaskWake(k))
        /\ WF_vars(k \in DOMAIN tasks /\ SleepUntil(k))

NextFair ==
    \/ StartTimer(FewRequests, MaxTimers, MaxTasks)
    \/ CancelTimer
    \/ AddTime(Deltas, MaxTasks)
    \/ RemoveTime(RemoveDeltas, MaxTasks)
    \/ Wake
    \/ Cancelled
    \/ Tick
    \/ Sleep

SpecFair == Init /\ [][NextFair]_vars /\ Fairness

\* The manager with subscribers.
NextDispatch ==
    \/ StartTimer(FewRequests, MaxTimers, DispatchTasks)
    \/ CancelTimer
    \/ AddTime(DispatchDeltas, DispatchTasks)
    \/ RegisterHandler(MaxHandlers)
    \/ Unregister
    \/ InvokeHandler
    \/ Wake
    \/ Cancelled
    \/ Sleep

SpecDispatch == Init /\ [][NextDispatch]_vars

\* The manager with subscribers whose handlers end, by returning or raising.
NextHandlers ==
    \/ SubscribeFirst(Subscribers, Some("kitchen"), HandlersPerDevice)
    \/ StartTimer(KitchenRequests, HandlerTimers, HandlerTasks)
    \/ CancelTimer
    \/ AddTime(DispatchDeltas, HandlerTasks)
    \/ InvokeSome(HandlerCalls)
    \/ HandlerEnds
    \/ Resume
    \/ Wake
    \/ Cancelled
    \/ Sleep

SpecHandlers == Init /\ [][NextHandlers]_vars

\* The manager with subscribers that come and go while events are dispatched.
NextSubscribe ==
    \/ StartTimer(KitchenRequests, HandlerTimers, SubscribeTasks)
    \/ CancelTimer
    \/ RegisterNext(Subscribers, Some("kitchen"), HandlersPerDevice)
    \/ Unregister
    \/ InvokeHandler
    \/ HandlerEnds
    \/ Resume
    \/ Wake
    \/ Cancelled
    \/ Sleep

SpecSubscribe == Init /\ [][NextSubscribe]_vars

\* The timers' life cycle with the callers observed.
NextCalls ==
    \/ CallStartTimer(FewRequests, MaxTimers, CallTasks)
    \/ CallCancelTimer
    \/ CallAddTime(CallDeltas, CallTasks)
    \/ CallRemoveTime(CallDeltas, CallTasks)
    \/ Wake
    \/ Cancelled
    \/ Sleep

SpecCalls == Init /\ [][NextCalls]_vars

\* The timers' life cycle with lookups.
NextLookup ==
    \/ StartTimer(LookupRequests, MaxTimers, LookupTasks)
    \/ CancelTimer
    \/ AddTime(CallDeltas, LookupTasks)
    \/ FindTimerByName
    \/ FindTimerByStart
    \/ Wake
    \/ Cancelled
    \/ Sleep

SpecLookup == Init /\ [][NextLookup]_vars

----------------------------------------------------------------------------
(* What the properties below speak of. *)

\* The positions in the log of the events of one type for one timer.
EventsOf(id, type) ==
    {i \in DOMAIN events : events[i].timer_id = id /\ events[i].type = type}

\* The positions in the log of all events of one timer.
AllEventsOf(id) == {i \in DOMAIN events : events[i].timer_id = id}

\* The timers start_timer has created so far.
Started == 1..(next_id - 1)

\* The suspension tasks created for one timer.
TasksOf(id) == {k \in DOMAIN tasks : tasks[k].timer_id = id}

\* Some lookup returns the timer.
Found(id) ==
    \/ \E n \in QueryNames, d \in Devices : find_timer_by_name(n, d) = Some(id)
    \/ \E h \in QueryParts, m \in QueryParts, sec \in QueryParts, d \in Devices :
           find_timer_by_start(h, m, sec, d) = Some(id)

\* An optional number, None counting as 0.
Value(opt) == IF opt = None THEN 0 ELSE opt[1]

\* The step appends one event to the log.
Dispatches == Len(events') = Len(events) + 1
NewEvent == events'[Len(events')]

----------------------------------------------------------------------------
(* C1 *)

\* C1: once cancel_timer has removed a timer, no Finished event for it is
\* dispatched after the Cancelled one, and neither lookup returns it.
C1_CancelIsFinal ==
    \A i \in DOMAIN events :
        events[i].type = "cancelled" =>
            /\ \A j \in DOMAIN events :
                   (j > i /\ events[j].timer_id = events[i].timer_id)
                       => events[j].type # "finished"
            /\ ~Found(events[i].timer_id)

\* A timer was cancelled when the sleep of its suspension task was already
\* over, and the task has ended since.
C1_Witness ==
    \E i \in DOMAIN events :
        /\ events[i].type = "cancelled"
        /\ \E k \in TasksOf(events[i].timer_id) :
               /\ tasks[k].wake <= events[i].at
               /\ tasks[k].state = "cancelled"

----------------------------------------------------------------------------
(* C2 *)

\* Task k ends in this step.
Ends(k) == tasks[k].state = "sleeping" /\ tasks'[k].state # "sleeping"

\* C2: a suspension task that wakes and finds its timer gone, or the timer's
\* updated_at different from the one it was created with, ends with no event
\* dispatched and the registry as it was; and a Finished event for a timer
\* comes from the last task created for it (after two add_time calls, the
\* task of the second).
C2_StaleTaskIsSilent ==
    /\ [][\A k \in DOMAIN tasks :
              (/\ Ends(k)
               /\ \/ tasks[k].timer_id \notin DOMAIN timers
                  \/ timers[tasks[k].timer_id].updated_at # tasks[k].updated_at)
              => (events' = events /\ timers' = timers)]_vars
    /\ [](\A i \in DOMAIN events :
              events[i].type = "finished" =>
                  \A k \in TasksOf(events[i].timer_id) : k <= events[i].task)

\* A timer was updated twice; the task of the first update woke, found the
\* epoch changed and ended; the task of the second update finished the timer.
C2_Witness ==
    \E id \in Started :
        \E k1 \in TasksOf(id), k2 \in TasksOf(id), k3 \in TasksOf(id) :
            /\ k1 < k2 /\ k2 < k3
            /\ tasks[k2].state = "stale"
            /\ tasks[k3].state = "finished"
            /\ EventsOf(id, "finished") # {}

----------------------------------------------------------------------------
(* C3 *)

\* C3: when cancellation requests may come too late, still every timer has at
\* most one Finished event, no Finished event follows a Cancelled event of the
\* same timer, and no Finished event comes from a task created before an
\* update of the timer that was made before the event.
C3_EpochGuards ==
    /\ \A id \in Started : Cardinality(EventsOf(id, "finished")) <= 1
    /\ \A id \in Started :
           \A i \in EventsOf(id, "cancelled"), j \in EventsOf(id, "finished") :
               j < i
    /\ \A id \in Started :
           \A j \in EventsOf(id, "finished"), i \in EventsOf(id, "updated") :
               i < j => events[i].at < tasks[events[j].task].updated_at

\* A task whose cancellation was requested woke all the same, after its timer
\* was updated, and later the timer finished.
C3_Witness ==
    \E id \in Started :
        /\ EventsOf(id, "finished") # {}
        /\ \E k \in TasksOf(id) :
               tasks[k].cancel_requested /\ tasks[k].state = "stale"

----------------------------------------------------------------------------
(* C4 *)

TerminalTypes == {"finished", "cancelled"}

\* C4: under fair scheduling of the suspension tasks and a clock that goes
\* on, every registered timer leaves the registry, and one that was not
\* cancelled has then exactly one Finished event.
C4_EveryTimerEnds ==
    \A id \in 1..MaxTimers :
        (id \in DOMAIN timers) ~>
            (/\ id \notin DOMAIN timers
             /\ EventsOf(id, "cancelled") = {}
                    => Cardinality(EventsOf(id, "finished")) = 1)

\* A timer started with no duration has finished, and so has a timer that
\* add_time shortened to no duration.
C4_Witness ==
    /\ \E id \in Started :
           /\ \E i \in EventsOf(id, "started") : events[i].seconds_left = 0
           /\ EventsOf(id, "updated") = {}
           /\ EventsOf(id, "finished") # {}
    /\ \E id \in Started :
           /\ \E i \in EventsOf(id, "started") : events[i].seconds_left > 0
           /\ \E i \in EventsOf(id, "updated") : events[i].seconds_left = 0
           /\ EventsOf(id, "finished") # {}

----------------------------------------------------------------------------
(* C5 *)

\* C5: when a handler is called with a Finished or Cancelled event, the timer
\* is no longer in the registry; and no timer in the registry has a Finished
\* or Cancelled event.
C5_RemovedBeforeNotified ==
    /\ [][ninvoked' = ninvoked + 1 =>
              LET e == events[Calls(events)[ninvoked + 1].event]
              IN  e.type \in TerminalTypes => e.timer_id \notin DOMAIN timers]_vars
    /\ [](\A id \in DOMAIN timers :
              EventsOf(id, "finished") \cup EventsOf(id, "cancelled") = {})

\* Handlers have been called with a Finished event and with a Cancelled one.
C5_Witness ==
    /\ \E n \in 1..ninvoked :
           events[Calls(events)[n].event].type = "finished"
    /\ \E n \in 1..ninvoked :
           events[Calls(events)[n].event].type = "cancelled"

----------------------------------------------------------------------------
(* C6 *)

\* C6: every timer has at most one Finished or Cancelled event in all, and a
\* Finished or Cancelled event is dispatched only for a timer that the step
\* finds in the registry.
C6_OneTerminalEvent ==
    /\ [](\A id \in Started :
              Cardinality(EventsOf(id, "finished") \cup EventsOf(id, "cancelled"))
                  <= 1)
    /\ [][(Dispatches /\ NewEvent.type \in TerminalTypes)
              => NewEvent.timer_id \in DOMAIN timers]_vars

\* One timer has finished and another was cancelled after its sleep was over.
C6_Witness ==
    /\ \E id \in Started : EventsOf(id, "finished") # {}
    /\ \E id \in Started :
           \E i \in EventsOf(id, "cancelled"), k \in TasksOf(id) :
               tasks[k].wake <= events[i].at /\ tasks[k].cancel_requested

----------------------------------------------------------------------------
(* C7 *)

\* C7: a step of cancel_timer that finds the timer leaves it out of the
\* registry; a timer that has left the registry never returns to it; and a
\* suspension task is created only for a timer in the registry or a new one.
C7_NoResurrection ==
    [][/\ (Dispatches /\ NewEvent.type = "cancelled")
              => NewEvent.timer_id \notin DOMAIN timers'
       /\ \A id \in Started : id \notin DOMAIN timers => id \notin DOMAIN timers'
       /\ Len(tasks') > Len(tasks) =>
              LET t == tasks'[Len(tasks')]
              IN  t.timer_id \in DOMAIN timers \/ t.timer_id \notin Started]_vars

\* A timer was updated by add_time and then cancelled.
C7_Witness ==
    \E id \in Started :
        /\ id \notin DOMAIN timers
        /\ \E i \in EventsOf(id, "updated"), j \in EventsOf(id, "cancelled") : i < j

----------------------------------------------------------------------------
(* C8 *)

\* The device of the timer an event of this step is about.
Scope(id) ==
    IF id \in DOMAIN timers THEN timers[id].device_id ELSE timers'[id].device_id

\* C8: every event is dispatched to the handlers registered, at that moment,
\* for the device of its timer, and to no others.
C8_ScopedDispatch ==
    [][Dispatches =>
           /\ NewEvent.device_id = Scope(NewEvent.timer_id)
           /\ NewEvent.targets = handlers[Scope(NewEvent.timer_id)]]_vars

\* Two timers of different devices finished when the sleeps of both were over,
\* each device had a handler, and every handler has been called.
C8_Witness ==
    \E i \in DOMAIN events, j \in DOMAIN events :
        /\ i < j
        /\ events[i].type = "finished" /\ events[j].type = "finished"
        /\ events[i].device_id # events[j].device_id
        /\ events[i].targets # <<>> /\ events[j].targets # <<>>
        /\ events[i].targets # events[j].targets
        /\ tasks[events[j].task].wake <= events[i].at
        /\ ninvoked = Len(Calls(events))

----------------------------------------------------------------------------
(* C9 *)

\* C9: start_timer puts a timer under an id that is not in the registry, of
\* 3600 hours + 60 minutes + seconds (None counting as 0), leaves the other
\* timers as they were, and dispatches a Started event with that seconds_left.
C9_StartTimer ==
    [][\A r \in StartRequests :
           start_timer(r.hours, r.minutes, r.seconds, r.device_id, r.name) =>
               LET id == next_id
                   total == 3600 * Value(r.hours) + 60 * Value(r.minutes)
                            + Value(r.seconds)
               IN  /\ id \notin DOMAIN timers
                   /\ DOMAIN timers' = DOMAIN timers \cup {id}
                   /\ \A o \in DOMAIN timers : timers'[o] = timers[o]
                   /\ timers'[id].seconds = total
                   /\ seconds_left(timers'[id], clock') = total
                   /\ Dispatches
                   /\ NewEvent.type = "started"
                   /\ NewEvent.timer_id = id
                   /\ NewEvent.seconds_left = total]_vars

\* A timer of 1 hour, 1 minute and 1 second is registered beside another.
C9_Witness ==
    \E id \in DOMAIN timers, o \in DOMAIN timers :
        /\ o < id
        /\ timers[id].start_hours = Some(1)
        /\ timers[id].start_minutes = Some(1)
        /\ timers[id].seconds = 3661

----------------------------------------------------------------------------
(* C10 *)

\* What add_time(id, s) does to a registered timer, s not 0.
UpdatedBy(id, s) ==
    LET elapsed == (clock - timers[id].updated_at) \div NsPerSec
        left == Max(0, timers[id].seconds - elapsed)
    IN  /\ timers'[id].seconds = Max(0, left + s)
        /\ timers'[id].updated_at >= clock
        /\ timers'[id].updated_at < clock'
        /\ Dispatches
        /\ NewEvent.type = "updated"
        /\ NewEvent.timer_id = id
        /\ NewEvent.seconds_left = timers'[id].seconds

\* C10: add_time on a registered timer, with seconds not 0, sets the duration
\* to max(0, seconds left at the call + seconds), sets updated_at to a clock
\* reading of the call and dispatches an Updated event with the new duration;
\* remove_time(id, s) does what add_time(id, -s) does.
C10_AddTime ==
    [][\A id \in DOMAIN timers :
           /\ \A s \in Deltas \ {0} : add_time(id, s) => UpdatedBy(id, s)
           /\ \A s \in RemoveDeltas \ {0} :
                  remove_time(id, s) => UpdatedBy(id, -s)]_vars

\* A timer was updated a second or more after it was started and is still
\* running, with a duration that is not the original plus or minus anything
\* asked for.
C10_Witness ==
    \E id \in DOMAIN timers :
        \E i \in EventsOf(id, "started"), j \in EventsOf(id, "updated") :
            /\ events[j].at - events[i].at >= NsPerSec
            /\ events[i].seconds_left = 2
            /\ events[j].seconds_left = 2
            /\ timers[id].seconds = 2

----------------------------------------------------------------------------
(* C11 *)

\* The call of this step, as its caller sees it.
Called(ops) == last' # last /\ last'.op \in ops

\* C11: add_time and remove_time with seconds 0 or with an id that is not in
\* the registry, and cancel_timer with an id that is not in the registry,
\* change neither the registry nor any timer, task, handler list or the clock,
\* dispatch no event, and return.
C11_SilentNoOps ==
    [][(\/ /\ Called({"add_time", "remove_time"})
           /\ last'.seconds = 0 \/ last'.timer_id \notin DOMAIN timers
        \/ /\ Called({"cancel_timer"})
           /\ last'.timer_id \notin DOMAIN timers)
       => (UNCHANGED state /\ last'.outcome = "returned")]_vars

\* add_time was called with 0 seconds for a registered timer whose task
\* sleeps, after another timer was cancelled.
C11_Witness ==
    /\ last.op = "add_time"
    /\ last.seconds = 0
    /\ last.timer_id \in DOMAIN timers
    /\ tasks[timers[last.timer_id].task].state = "sleeping"
    /\ \E i \in DOMAIN events : events[i].type = "cancelled"

----------------------------------------------------------------------------
(* C12 *)

\* Task k has not ended: it sleeps, or it is suspended in the gather of
\* _timer_finished.
Live(k) ==
    \/ tasks[k].state = "sleeping"
    \/ /\ tasks[k].state = "finished"
       /\ \E e \in DOMAIN events : events[e].task = k /\ e \notin DOMAIN returns

\* The tasks of a timer that have not ended and were created with the
\* updated_at the timer has now.
Authoritative(id) ==
    {k \in TasksOf(id) :
        Live(k) /\ tasks[k].updated_at = timers[id].updated_at}

\* C12: every timer in the registry has exactly one task that has not ended
\* and was created with the timer's updated_at, and that is the timer's task.
C12_OneAuthoritativeTask ==
    \A id \in DOMAIN timers : Authoritative(id) = {timers[id].task}

\* A registered timer was updated and the task it had before has not ended
\* yet.
C12_Witness ==
    \E id \in DOMAIN timers :
        \E k \in TasksOf(id) :
            /\ k # timers[id].task
            /\ Live(k)
            /\ tasks[k].cancel_requested

----------------------------------------------------------------------------
(* C13 *)

\* The await of the gather of event e is over and the operation returned.
Returned(e) == e \in DOMAIN returns /\ returns[e] = "returned"

\* The await of the gather of event e is over with an exception.
Raised(e) == e \in DOMAIN returns /\ returns[e] = "raised"

\* C13: an operation that dispatched an event has returned only if every
\* handler that was in the list of the timer's device when the event was
\* dispatched has been started with the event and has ended.
C13_ReturnsAfterHandlers ==
    /\ [][Dispatches => NewEvent.targets = handlers[NewEvent.device_id]]_vars
    /\ [](\A e \in DOMAIN events :
              Returned(e) =>
                  /\ Cardinality(CallsOf(e)) = Len(events[e].targets)
                  /\ \A c \in CallsOf(e) :
                         /\ c <= ninvoked
                         /\ c \in DOMAIN results
                         /\ results[c] = "done")

\* start_timer, add_time and cancel_timer have each returned from a dispatch
\* to two handlers.
C13_Witness ==
    \A type \in {"started", "updated", "cancelled"} :
        \E e \in DOMAIN events :
            /\ events[e].type = type
            /\ Len(events[e].targets) = 2
            /\ Returned(e)

----------------------------------------------------------------------------
(* C14 *)

\* Call c is a call of the same handler for the same device as call d, of an
\* event dispatched earlier.
EarlierFor(c, d) ==
    LET cs == Calls(events)
    IN  /\ cs[c].handler = cs[d].handler
        /\ events[cs[c].event].device_id = events[cs[d].event].device_id
        /\ cs[c].event < cs[d].event

----------------------------------------------------------------------------
(* C15 *)

\* Some handler of event e has raised.
Failed(e) ==
    \E c \in CallsOf(e) : c \in DOMAIN results /\ results[c] = "failed"

\* Event e is the last one dispatched for its timer.
LastOf(e) == \A j \in AllEventsOf(events[e].timer_id) : j <= e

\* C15: when a handler of an event has raised, the operation that dispatched
\* it does not return: once its await is over it has raised; the step in
\* which it raises changes no timer and no task; a timer whose cancel_timer
\* raised is out of the registry and has no Finished event; and as long as
\* nothing else was done to the timer, after an add_time that raised the
\* timer has the new duration and a new updated_at, and after a start_timer
\* or add_time that raised it is registered with its task sleeping.
C15_FailureNoRollback ==
    /\ [](\A e \in DOMAIN events :
              (Failed(e) /\ e \in DOMAIN returns) => Raised(e))
    /\ [][\A e \in DOMAIN events :
              (e \notin DOMAIN returns /\ e \in DOMAIN returns') =>
                  (timers' = timers /\ tasks' = tasks /\ events' = events)]_vars
    /\ [](\A e \in DOMAIN events :
              LET id == events[e].timer_id
              IN  Raised(e) =>
                      /\ events[e].type = "cancelled" =>
                             /\ id \notin DOMAIN timers
                             /\ EventsOf(id, "finished") = {}
                      /\ (events[e].type = "updated" /\ LastOf(e)) =>
                             /\ id \in DOMAIN timers
                             /\ timers[id].seconds = events[e].seconds_left
                             /\ timers[id].updated_at > events[e].at
                      /\ (events[e].type \in {"started", "updated"} /\ LastOf(e)) =>
                             /\ id \in DOMAIN timers
                             /\ tasks[timers[id].task].state = "sleeping"
                             /\ tasks[timers[id].task].updated_at
                                    = timers[id].updated_at)

\* start_timer, add_time and cancel_timer for one timer have each raised the
\* exception of a handler.
C15_Witness ==
    \A type \in {"started", "updated", "cancelled"} :
        \E e \in DOMAIN events : events[e].type = type /\ Raised(e)

----------------------------------------------------------------------------
(* C16 *)

\* The handlers the calls of event e are for, in the order of the calls.
Receivers(e) ==
    LET Of(c) == c.event = e
        cs == SelectSeq(Calls(events), Of)
    IN  [i \in 1..Len(cs) |-> cs[i].handler]

\* C16: the handlers an event is for are those in the list of its device
\* when it is dispatched, so that a handler taken out of the list before is
\* not among them; no later step, a register_handler or an unregistering
\* among them, changes the handlers a dispatched event is for or the calls
\* made for it; and a step that changes a list of handlers changes nothing
\* else.
C16_DispatchUndisturbed ==
    [][/\ Dispatches =>
              /\ NewEvent.targets = handlers[NewEvent.device_id]
              /\ Receivers(Len(events))' = handlers[NewEvent.device_id]
       /\ \A e \in DOMAIN events :
              /\ events'[e] = events[e]
              /\ Receivers(e)' = Receivers(e)
       /\ handlers' # handlers =>
              UNCHANGED <<clock, timers, tasks, events, ninvoked, next_id,
                          results, returns>>]_vars

\* An event was dispatched to two handlers; while its dispatch was under way
\* the first of them was unregistered, and both were started with the event;
\* a later event was dispatched to the other handler only.
C16_Witness ==
    \E e1 \in DOMAIN events, e2 \in DOMAIN events :
        /\ e1 < e2
        /\ events[e1].device_id = events[e2].device_id
        /\ events[e1].targets = <<"h1", "h2">>
        /\ events[e2].targets = <<"h2">>
        /\ e1 \notin DOMAIN returns
        /\ \A c \in CallsOf(e1) \cup CallsOf(e2) : c <= ninvoked
        /\ \E c \in CallsOf(e1) : c \notin DOMAIN results

----------------------------------------------------------------------------
(* C17 *)

\* C17: the seconds_left of a registered timer is never negative, and from
\* one state to the next it does not grow unless the timer was updated; the
\* duration of a timer is never negative.
C17_SecondsLeft ==
    /\ [](\A id \in DOMAIN timers :
              /\ seconds_left(timers[id], clock) >= 0
              /\ timers[id].seconds >= 0)
    /\ [][\A id \in DOMAIN timers \cap DOMAIN timers' :
              timers'[id].updated_at = timers[id].updated_at =>
                  /\ seconds_left(timers'[id], clock')
                         <= seconds_left(timers[id], clock)
                  /\ timers'[id].seconds = timers[id].seconds]_vars

\* A registered timer of a second or more has been running for longer than
\* its duration, and another has a second left of the two it was started with.
C17_Witness ==
    /\ \E id \in DOMAIN timers :
           /\ timers[id].seconds > 0
           /\ (clock - timers[id].updated_at) \div NsPerSec > timers[id].seconds
    /\ \E id \in DOMAIN timers :
           /\ timers[id].seconds = 2
           /\ seconds_left(timers[id], clock) = 1

----------------------------------------------------------------------------
(* C18 *)

\* The registered timers whose name, trimmed and case-folded, is the query
\* trimmed and case-folded.
NameHits(query) ==
    {i \in DOMAIN timers :
        /\ timers[i].name # None
        /\ casefold(strip(timers[i].name[1])) = casefold(strip(query))}

\* The registered timers that were started with these components.
StartHits(hours, minutes, seconds) ==
    {i \in DOMAIN timers :
        /\ timers[i].start_hours = hours
        /\ timers[i].start_minutes = minutes
        /\ timers[i].start_seconds = seconds}

\* The value is one of the hits, or None when there is none.
OneOf(value, hits) ==
    IF hits = {} THEN value = None ELSE \E i \in hits : value = Some(i)

\* C18: whatever device_id it is given, find_timer_by_name returns a
\* registered timer whose normalized name is the normalized query when there
\* is one and None otherwise, and find_timer_by_start does so for the timers
\* started with exactly the components asked for; the name and the start
\* components of a timer are those start_timer was called with as long as it
\* is registered; and a lookup changes nothing.
C18_Lookups ==
    [][/\ Called({"find_timer_by_name"}) =>
              /\ OneOf(last'.value, NameHits(last'.name))
              /\ UNCHANGED state
       /\ Called({"find_timer_by_start"}) =>
              /\ OneOf(last'.value,
                       StartHits(last'.hours, last'.minutes, last'.seconds))
              /\ UNCHANGED state
       /\ \A r \in LookupRequests :
              start_timer(r.hours, r.minutes, r.seconds, r.device_id, r.name) =>
                  /\ timers'[next_id].start_hours = r.hours
                  /\ timers'[next_id].start_minutes = r.minutes
                  /\ timers'[next_id].start_seconds = r.seconds
                  /\ timers'[next_id].name = r.name
       /\ \A id \in DOMAIN timers \cap DOMAIN timers' :
              /\ timers'[id].start_hours = timers[id].start_hours
              /\ timers'[id].start_minutes = timers[id].start_minutes
              /\ timers'[id].start_seconds = timers[id].start_seconds
              /\ timers'[id].name = timers[id].name]_vars

\* A lookup by start components, one of them absent, asked for another device
\* than the timer's, found a timer that add_time had updated.
C18_Witness ==
    /\ last.op = "find_timer_by_start"
    /\ last.hours = None
    /\ last.value # None
    /\ \E id \in DOMAIN timers :
           /\ last.value = Some(id)
           /\ timers[id].device_id # last.device_id
           /\ EventsOf(id, "updated") # {}
           /\ timers[id].seconds
                  # total_seconds(last.hours, last.minutes, last.seconds)

----------------------------------------------------------------------------
(* C19 *)

\* C19: the events dispatched for a timer are, in the order of their
\* dispatch, one Started, then any number of Updated, then at most one
\* Finished or Cancelled and nothing after it; every event is of a timer
\* start_timer created; and an Updated event is dispatched only for a timer
\* that is in the registry before and after the step.
C19_EventOrder ==
    /\ [](\A i \in DOMAIN events : events[i].timer_id \in Started)
    /\ [](\A id \in Started :
              /\ Cardinality(EventsOf(id, "started")) = 1
              /\ \A i \in EventsOf(id, "started"), j \in AllEventsOf(id) : i <= j
              /\ Cardinality(EventsOf(id, "finished")
                                 \cup EventsOf(id, "cancelled")) <= 1
              /\ \A i \in EventsOf(id, "finished") \cup EventsOf(id, "cancelled") :
                     \A j \in AllEventsOf(id) : j <= i)
    /\ [][(Dispatches /\ NewEvent.type = "updated") =>
              /\ NewEvent.timer_id \in DOMAIN timers
              /\ NewEvent.timer_id \in DOMAIN timers']_vars

\* A timer started with no duration has its Started and then its Finished
\* event, and another timer was started, updated and then cancelled.
C19_Witness ==
    /\ \E id \in Started :
           \E i \in EventsOf(id, "started"), j \in EventsOf(id, "finished") :
               events[i].seconds_left = 0 /\ i < j
    /\ \E id \in Started :
           \E i \in EventsOf(id, "started"), j \in EventsOf(id, "updated"),
              k \in EventsOf(id, "cancelled") : i < j /\ j < k

----------------------------------------------------------------------------
(* C20 *)

\* C20: when a Finished event is dispatched for a timer, the clock is at
\* least the timer's duration past its updated_at and its seconds_left is 0,
\* also when cancellation requests come too late.
C20_NeverEarly ==
    [][(Dispatches /\ NewEvent.type = "finished") =>
           LET timer == timers[NewEvent.timer_id]
           IN  /\ clock - timer.updated_at >= timer.seconds * NsPerSec
               /\ seconds_left(timer, clock) = 0]_vars

\* A timer that add_time had extended has finished, after the task it had
\* before woke in spite of the cancellation request.
C20_Witness ==
    \E id \in Started :
        /\ EventsOf(id, "finished") # {}
        /\ \E i \in EventsOf(id, "started"), j \in EventsOf(id, "updated") :
               events[j].seconds_left > events[i].seconds_left
        /\ \E k \in TasksOf(id) :
               tasks[k].cancel_requested /\ tasks[k].state = "stale"

====
